---- MODULE Spec2Model ----
(***************************************************************************)
(* The price-dumping control loop of seller-assistant.                     *)
(*                                                                         *)
(* PriceDumpingService (ProcessAllUsers, ProcessUserProducts,              *)
(* processProduct, EnableProductDumping, DisableProductDumping), the      *)
(* product store operations it uses (GetProductsForDumping, UpdatePrice,   *)
(* GetByID, Update, UpsertProduct), the marketplace client calls           *)
(* (GetCompetitorPrices, UpdateProductPrice, GetMinCompetitorPrice) and    *)
(* the cron scheduler that starts the cycles.                              *)
(*                                                                         *)
(* Prices are float64 tenge in the source; the mock marketplace rounds     *)
(* them to whole tenge, and they are integers here.  Time is counted in    *)
(* units of ten seconds, the window ProcessUserProducts compares           *)
(* LastPriceCheckAt against; 0 is the zero time.Time of a product that     *)
(* was never checked.                                                      *)
(***************************************************************************)
EXTENDS Integers, Sequences, FiniteSets, TLC

\* ------------------------------------------------------------------ bounds
MaxPrice == 2
MaxObs == 2
NumProducts == 3
MaxOverlap == 2
MaxTicks == 2
MaxTime == 2
MaxEnvOps == 1
MaxList == 4

\* ------------------------------------------------------- program constants
PriceDumpMargin == 1

\* --------------------------------------------------------------- universes
NumUsers == 2
Users == 1..NumUsers
Products == 1..NumProducts
Prices == 0..MaxPrice
Runs == 1..MaxOverlap

\* user_id of a product: the first user owns every product but the last one
Owner(p) == IF p < NumProducts THEN 1 ELSE 2

\* the competitor observation lists a fetch can return (prices only; the
\* seller name plays no part in the loop)
RECURSIVE SeqsUpTo(_, _)
SeqsUpTo(S, n) ==
    IF n = 0 THEN {<<>>}
    ELSE LET shorter == SeqsUpTo(S, n - 1)
         IN  shorter \cup {Append(s, x) : s \in {t \in shorter : Len(t) = n - 1}, x \in S}

ObsLists == SeqsUpTo(Prices, MaxObs)

VARIABLES
    store,      \* the products collection: id of each product in it -> document
    market,     \* the price last published to the marketplace, per product
    activeKeys, \* the user ids of the active keys of the kaspi_keys collection
    runs,       \* the scheduler-started executions of the price dumping job
    started,    \* how many runs the scheduler has started
    req,        \* the user-facing handler in flight (enable / disable)
    now,        \* wall clock, in units of ten seconds
    phase,      \* worker process: "initial", "running", "stopping", "exited"
    envOps,     \* number of handler requests and sync upserts so far
    calc,       \* the CalculateDaysOfStock of the inventory sync in flight
    minCall     \* a call of kaspi.GetMinCompetitorPrice: argument and result

vars == <<store, market, activeKeys, runs, started, req, now, phase, envOps,
          calc, minCall>>

\* ------------------------------------------------------------ pure helpers

\* kaspi.GetMinCompetitorPrice: scan of the list from its first element
RECURSIVE MinScan(_, _, _)
MinScan(prices, i, minPrice) ==
    IF i > Len(prices) THEN minPrice
    ELSE MinScan(prices, i + 1, IF prices[i] < minPrice THEN prices[i] ELSE minPrice)

\* GetMinCompetitorPrice returning the first price of the list
GetMinCompetitorPriceFirst(prices) ==
    IF Len(prices) = 0 THEN 0 ELSE prices[1]

GetMinCompetitorPrice(prices) ==
    IF Len(prices) = 0 THEN 0 ELSE MinScan(prices, 1, prices[1])

\* CandidatePrice without the margin
CandidatePriceNoMargin(minCompetitorPrice) == minCompetitorPrice

\* newPrice := minCompetitorPrice - PriceDumpMargin
CandidatePrice(minCompetitorPrice) == minCompetitorPrice - PriceDumpMargin

\* FloorGuard comparing the competitor's price, not the candidate, with the floor
FloorGuardOnCompetitorPrice(product, newPrice) ==
    product.minPrice > 0 /\ newPrice + PriceDumpMargin < product.minPrice

\* FloorGuard without the test that a floor is set
FloorGuardNoZeroCheck(product, newPrice) ==
    newPrice < product.minPrice

\* the minimum-threshold check of processProduct
FloorGuard(product, newPrice) ==
    product.minPrice > 0 /\ newPrice < product.minPrice

\* Decision without the early return for an empty list
DecisionNoEmptyCheck(product, competitorPrices) ==
    LET newPrice == CandidatePrice(GetMinCompetitorPrice(competitorPrices))
    IN  IF FloorGuard(product, newPrice) THEN "SkippedFloor"
        ELSE IF product.price = newPrice THEN "SkippedOptimal"
        ELSE "Updated"

\* Decision without the already-optimal test
DecisionNoOptimalCheck(product, competitorPrices) ==
    IF Len(competitorPrices) = 0 THEN "SkippedNoCompetitors"
    ELSE LET newPrice == CandidatePrice(GetMinCompetitorPrice(competitorPrices))
         IN  IF FloorGuard(product, newPrice) THEN "SkippedFloor"
             ELSE "Updated"

\* the branch processProduct takes once the competitor prices are fetched
Decision(product, competitorPrices) ==
    IF Len(competitorPrices) = 0 THEN "SkippedNoCompetitors"
    ELSE LET newPrice == CandidatePrice(GetMinCompetitorPrice(competitorPrices))
         IN  IF FloorGuard(product, newPrice) THEN "SkippedFloor"
             ELSE IF product.price = newPrice THEN "SkippedOptimal"
             ELSE "Updated"

\* ForDumping without the current_stock condition
ForDumpingAnyStock(userID, p) ==
    /\ p \in DOMAIN store
    /\ Owner(p) = userID
    /\ store[p].enabled

\* ProductRepository.GetProductsForDumping: the filter of the query
ForDumping(userID, p) ==
    /\ p \in DOMAIN store
    /\ Owner(p) = userID
    /\ store[p].enabled
    /\ store[p].stock > 0

\* the documents the query returns, decoded into domain.Product values
Snapshot(p) ==
    [id |-> p, price |-> store[p].price, minPrice |-> store[p].minPrice,
     lastCheck |-> store[p].lastCheck]

RECURSIVE ListFrom(_, _)
ListFrom(userID, p) ==
    IF p > NumProducts THEN <<>>
    ELSE IF ForDumping(userID, p) THEN <<Snapshot(p)>> \o ListFrom(userID, p + 1)
    ELSE ListFrom(userID, p + 1)

GetProductsForDumping(userID) == ListFrom(userID, 1)

\* UpdatePrice without the price in its $set
UpdatePriceKeepsPrice(doc, newPrice, competitorMinPrice) ==
    [doc EXCEPT !.compMin = competitorMinPrice,
                !.lastCheck = now]

\* ProductRepository.UpdatePrice: the $set of the update
UpdatePrice(doc, newPrice, competitorMinPrice) ==
    [doc EXCEPT !.price = newPrice,
                !.compMin = competitorMinPrice,
                !.lastCheck = now]

\* ------------------------------------------------------------- run records

\* One execution of ProcessAllUsers.  keys, ui, products, pi, noCompetitors
\* (len(competitorPrices) == 0), minComp, newPrice and the four counts are
\* the locals of the three functions.  called and outcome record what the
\* run has done: the users ProcessUserProducts was called for, and for each
\* product the state of its processing in this cycle ("NotListed" until the
\* loop over the user's products is entered with it, "Pending" from then
\* until its processProduct returns or fails).  fetchCalls and publishCalls
\* count the run's calls of client.GetCompetitorPrices and of
\* client.UpdateProductPrice for each product; failedUsers are the users
\* for whom ProcessUserProducts returned an error.
IdleRun ==
    [pc |-> "idle", keys |-> <<>>, ui |-> 0, products |-> <<>>, pi |-> 0,
     noCompetitors |-> FALSE, minComp |-> 0, newPrice |-> 0,
     successCount |-> 0, errorCount |-> 0,
     processedCount |-> 0, updatedCount |-> 0,
     ret |-> "none",
     called |-> {},
     failedUsers |-> {},
     outcome |-> [p \in Products |-> "NotListed"],
     fetchCalls |-> [p \in Products |-> 0],
     publishCalls |-> [p \in Products |-> 0]]

Failures == {"FailedFetch", "FailedPublish", "FailedWrite"}

\* AfterUser returning the error of ProcessUserProducts instead of counting it
AfterUserReturnError(r, failed) ==
    IF failed THEN [r EXCEPT !.pc = "returned", !.ret = "error"]
    ELSE IF r.ui < Len(r.keys)
         THEN [r EXCEPT !.successCount = @ + 1, !.pc = "ProcessUserProducts", !.ui = @ + 1]
         ELSE [r EXCEPT !.successCount = @ + 1, !.pc = "returned", !.ret = "nil"]

\* AfterUser without the count of the errors
AfterUserDropsError(r, failed) ==
    LET counted == [r EXCEPT !.successCount = IF failed THEN @ ELSE @ + 1]
    IN  IF r.ui < Len(r.keys)
        THEN [counted EXCEPT !.pc = "ProcessUserProducts", !.ui = @ + 1]
        ELSE [counted EXCEPT !.pc = "returned", !.ret = "nil"]

\* ProcessAllUsers: the body of the loop over keys after ProcessUserProducts
\* has returned (failed: it returned an error), and the return after the loop
AfterUser(r, failed) ==
    LET counted == [r EXCEPT !.errorCount = IF failed THEN @ + 1 ELSE @,
                             !.successCount = IF failed THEN @ ELSE @ + 1]
    IN  IF r.ui < Len(r.keys)
        THEN [counted EXCEPT !.pc = "ProcessUserProducts", !.ui = @ + 1]
        ELSE [counted EXCEPT !.pc = "returned", !.ret = "nil"]

\* the updated-count test of ProcessUserProducts, made on the listed copy
CheckedRecently(product, t) == product.lastCheck > t - 1

\* AfterProduct returning the error of processProduct instead of continuing
AfterProductReturnError(r, result, t) ==
    LET product == r.products[r.pi]
        failed == result \in Failures
        counted == [r EXCEPT
            !.outcome[product.id] = result,
            !.processedCount = IF failed THEN @ ELSE @ + 1,
            !.updatedCount = IF ~failed /\ CheckedRecently(product, t) THEN @ + 1 ELSE @,
            !.noCompetitors = FALSE, !.minComp = 0, !.newPrice = 0]
    IN  IF failed THEN AfterUser(counted, TRUE)
        ELSE IF r.pi < Len(r.products)
        THEN [counted EXCEPT !.pc = "processProduct", !.pi = @ + 1]
        ELSE AfterUser(counted, FALSE)

\* AfterProduct calling processProduct again for a product that failed
AfterProductRetry(r, result, t) ==
    LET product == r.products[r.pi]
        failed == result \in Failures
        counted == [r EXCEPT
            !.outcome[product.id] = result,
            !.processedCount = IF failed THEN @ ELSE @ + 1,
            !.updatedCount = IF ~failed /\ CheckedRecently(product, t) THEN @ + 1 ELSE @,
            !.noCompetitors = FALSE, !.minComp = 0, !.newPrice = 0]
    IN  IF failed
        THEN [r EXCEPT !.pc = "processProduct",
                       !.noCompetitors = FALSE, !.minComp = 0, !.newPrice = 0]
        ELSE IF r.pi < Len(r.products)
        THEN [counted EXCEPT !.pc = "processProduct", !.pi = @ + 1]
        ELSE AfterUser(counted, FALSE)

\* AfterProduct never returning to the loop after a product that failed
AfterProductHangs(r, result, t) ==
    LET product == r.products[r.pi]
        failed == result \in Failures
        counted == [r EXCEPT
            !.outcome[product.id] = result,
            !.processedCount = IF failed THEN @ ELSE @ + 1,
            !.updatedCount = IF ~failed /\ CheckedRecently(product, t) THEN @ + 1 ELSE @,
            !.noCompetitors = FALSE, !.minComp = 0, !.newPrice = 0]
    IN  IF failed THEN [r EXCEPT !.pc = "hung"]
        ELSE IF r.pi < Len(r.products)
        THEN [counted EXCEPT !.pc = "processProduct", !.pi = @ + 1]
        ELSE AfterUser(counted, FALSE)

\* ProcessUserProducts: the body of the loop over products after
\* processProduct has returned (result: how it ended; an error is a failure)
AfterProduct(r, result, t) ==
    LET product == r.products[r.pi]
        failed == result \in Failures
        counted == [r EXCEPT
            !.outcome[product.id] = result,
            !.processedCount = IF failed THEN @ ELSE @ + 1,
            !.updatedCount = IF ~failed /\ CheckedRecently(product, t) THEN @ + 1 ELSE @,
            !.noCompetitors = FALSE, !.minComp = 0, !.newPrice = 0]
    IN  IF r.pi < Len(r.products)
        THEN [counted EXCEPT !.pc = "processProduct", !.pi = @ + 1]
        ELSE AfterUser(counted, FALSE)

\* ------------------------------------------------------------- the cycle

\* a run slot no goroutine occupies
Free(i) == runs[i].pc \in {"idle", "returned"}

\* cron fires the job: robfig/cron starts every firing in a goroutine of
\* its own, and Scheduler.New installs no job wrapper, so a firing does not
\* look at the runs still in progress
Tick ==
    /\ phase = "running"
    /\ started < MaxTicks
    /\ \E i \in Runs :
         /\ Free(i)
         /\ \A j \in Runs : j < i => ~Free(j)
         /\ runs' = [runs EXCEPT ![i] = [IdleRun EXCEPT !.pc = "ProcessAllUsers"]]
    /\ started' = started + 1
    /\ UNCHANGED <<activeKeys, store, market, req, now, phase, envOps, calc, minCall>>

Alive == phase # "exited"

\* GetAllActive without the return on error
GetAllActiveNoReturn(i) ==
    /\ Alive
    /\ runs[i].pc = "ProcessAllUsers"
    /\ \E ok \in BOOLEAN :
         runs' = [runs EXCEPT ![i] =
            [@ EXCEPT !.pc = "ProcessUserProducts", !.keys = activeKeys, !.ui = 1,
                      !.ret = IF ok THEN @ ELSE "error"]]
    /\ UNCHANGED <<store, market, activeKeys, started, req, now, phase, envOps, calc, minCall>>

\* ProcessAllUsers up to the loop: kaspiKeyRepo.GetAllActive
GetAllActive(i) ==
    /\ Alive
    /\ runs[i].pc = "ProcessAllUsers"
    /\ \E ok \in BOOLEAN :
         runs' = [runs EXCEPT ![i] =
            IF ~ok THEN [@ EXCEPT !.pc = "returned", !.ret = "error"]
            ELSE IF Len(activeKeys) = 0 THEN [@ EXCEPT !.pc = "returned", !.ret = "nil"]
            ELSE [@ EXCEPT !.pc = "ProcessUserProducts", !.keys = activeKeys, !.ui = 1]]
    /\ UNCHANGED <<store, market, activeKeys, started, req, now, phase, envOps, calc, minCall>>

\* ProcessUserProducts up to the loop: GetProductsForDumping, the
\* empty-list return and getKaspiClient
ProcessUserProducts(i) ==
    /\ Alive
    /\ runs[i].pc = "ProcessUserProducts"
    /\ LET userID == runs[i].keys[runs[i].ui]
           r == [runs[i] EXCEPT !.called = @ \cup {userID},
                                !.products = <<>>, !.pi = 0]
           products == GetProductsForDumping(userID)
           error == [r EXCEPT !.failedUsers = @ \cup {userID}]
           entered == [r EXCEPT
               !.pc = "processProduct",
               !.products = products, !.pi = 1,
               !.processedCount = 0, !.updatedCount = 0,
               !.outcome = [p \in Products |->
                   IF \E k \in 1..Len(products) : products[k].id = p
                   THEN "Pending" ELSE @[p]]]
       IN  \E listOK \in BOOLEAN, decryptOK \in BOOLEAN :
             runs' = [runs EXCEPT ![i] =
                IF ~listOK THEN AfterUser(error, TRUE)
                ELSE IF Len(products) = 0 THEN AfterUser(r, FALSE)
                ELSE IF ~decryptOK THEN AfterUser(error, TRUE)
                ELSE entered]
    /\ UNCHANGED <<store, market, activeKeys, started, req, now, phase, envOps, calc, minCall>>

\* processProduct from client.GetCompetitorPrices to the branch it takes
processProduct(i) ==
    /\ Alive
    /\ runs[i].pc = "processProduct"
    /\ LET product == runs[i].products[runs[i].pi]
           r == [runs[i] EXCEPT !.fetchCalls[product.id] = @ + 1]
       IN  \/ \* the fetch fails
              runs' = [runs EXCEPT ![i] = AfterProduct(r, "FailedFetch", now)]
           \/ \E competitorPrices \in ObsLists :
                LET d == Decision(product, competitorPrices)
                    minComp == GetMinCompetitorPrice(competitorPrices)
                    got == [r EXCEPT !.noCompetitors = (Len(competitorPrices) = 0)]
                    kept == [got EXCEPT !.minComp = minComp,
                                        !.newPrice = CandidatePrice(minComp)]
                IN  runs' = [runs EXCEPT ![i] =
                       IF d = "SkippedNoCompetitors" THEN AfterProduct(got, d, now)
                       ELSE IF d = "SkippedFloor" THEN [kept EXCEPT !.pc = "floorWrite"]
                       ELSE IF d = "SkippedOptimal" THEN [kept EXCEPT !.pc = "optimalWrite"]
                       ELSE [kept EXCEPT !.pc = "publish"]]
    /\ UNCHANGED <<store, market, activeKeys, started, req, now, phase, envOps, calc, minCall>>

\* the UpdatePrice(product.ID, product.Price, minCompetitorPrice) of the
\* two skip branches
SkipWrite(i) ==
    /\ Alive
    /\ runs[i].pc \in {"floorWrite", "optimalWrite"}
    /\ LET r == runs[i]
           product == r.products[r.pi]
           d == IF r.pc = "floorWrite" THEN "SkippedFloor" ELSE "SkippedOptimal"
       IN  \/ /\ store' = [store EXCEPT ![product.id] =
                              UpdatePrice(@, product.price, r.minComp)]
              /\ runs' = [runs EXCEPT ![i] = AfterProduct(r, d, now)]
           \/ /\ runs' = [runs EXCEPT ![i] = AfterProduct(r, "FailedWrite", now)]
              /\ UNCHANGED store
    /\ UNCHANGED <<market, activeKeys, started, req, now, phase, envOps, calc, minCall>>

\* UpdateProductPrice with the store written before the publish is made
UpdateProductPriceAfterWrite(i) ==
    /\ Alive
    /\ runs[i].pc = "publish"
    /\ LET product == runs[i].products[runs[i].pi]
           r == [runs[i] EXCEPT !.publishCalls[product.id] = @ + 1]
       IN  /\ store' = [store EXCEPT ![product.id] =
                           UpdatePrice(@, r.newPrice, r.minComp)]
           /\ \/ /\ market' = [market EXCEPT ![product.id] = r.newPrice]
                 /\ runs' = [runs EXCEPT ![i] = AfterProduct(r, "Updated", now)]
              \/ /\ runs' = [runs EXCEPT ![i] = AfterProduct(r, "FailedPublish", now)]
                 /\ UNCHANGED market
    /\ UNCHANGED <<activeKeys, started, req, now, phase, envOps, calc, minCall>>

\* client.UpdateProductPrice(product.ExternalID, newPrice)
UpdateProductPrice(i) ==
    /\ Alive
    /\ runs[i].pc = "publish"
    /\ LET product == runs[i].products[runs[i].pi]
           r == [runs[i] EXCEPT !.publishCalls[product.id] = @ + 1]
       IN  \/ /\ market' = [market EXCEPT ![product.id] = r.newPrice]
              /\ runs' = [runs EXCEPT ![i] = [r EXCEPT !.pc = "write"]]
           \/ /\ runs' = [runs EXCEPT ![i] = AfterProduct(r, "FailedPublish", now)]
              /\ UNCHANGED market
    /\ UNCHANGED <<store, activeKeys, started, req, now, phase, envOps, calc, minCall>>

\* productRepo.UpdatePrice(product.ID, newPrice, minCompetitorPrice)
WriteNewPrice(i) ==
    /\ Alive
    /\ runs[i].pc = "write"
    /\ LET r == runs[i]
           product == r.products[r.pi]
       IN  \/ /\ store' = [store EXCEPT ![product.id] =
                              UpdatePrice(@, r.newPrice, r.minComp)]
              /\ runs' = [runs EXCEPT ![i] = AfterProduct(r, "Updated", now)]
           \/ /\ runs' = [runs EXCEPT ![i] = AfterProduct(r, "FailedWrite", now)]
              /\ UNCHANGED store
    /\ UNCHANGED <<market, activeKeys, started, req, now, phase, envOps, calc, minCall>>

\* ------------------------------------------------------------ environment

TimePasses ==
    /\ Alive
    /\ now < MaxTime
    /\ now' = now + 1
    /\ UNCHANGED <<activeKeys, store, market, runs, started, req, phase, envOps, calc, minCall>>

\* Scheduler.Stop: cron stops firing; running jobs go on for up to 5 seconds
Stop ==
    /\ phase = "running"
    /\ phase' = "stopping"
    /\ UNCHANGED <<activeKeys, store, market, runs, started, req, now, envOps, calc, minCall>>

\* main returns: the jobs still running are abandoned where they are
Exit ==
    /\ phase = "stopping"
    /\ phase' = "exited"
    /\ UNCHANGED <<activeKeys, store, market, runs, started, req, now, envOps, calc, minCall>>

\* EnableProductDumping up to productRepo.Update: GetByID and the two
\* assignments to the copy it returned
EnableProductDumping(p, minPrice) ==
    /\ Alive
    /\ req.op = "none"
    /\ envOps < MaxEnvOps
    /\ req' = [op |-> "enable", id |-> p,
               product |-> [store[p] EXCEPT !.enabled = TRUE, !.minPrice = minPrice]]
    /\ envOps' = envOps + 1
    /\ UNCHANGED <<activeKeys, store, market, runs, started, now, phase, calc, minCall>>

\* DisableProductDumping up to productRepo.Update
DisableProductDumping(p) ==
    /\ Alive
    /\ req.op = "none"
    /\ envOps < MaxEnvOps
    /\ req' = [op |-> "disable", id |-> p,
               product |-> [store[p] EXCEPT !.enabled = FALSE]]
    /\ envOps' = envOps + 1
    /\ UNCHANGED <<activeKeys, store, market, runs, started, now, phase, calc, minCall>>

\* ProductRepository.Update: the $set of every field of the copy
Update ==
    /\ Alive
    /\ req.op # "none"
    /\ \/ store' = [store EXCEPT ![req.id] = req.product]
       \/ UNCHANGED store
    /\ req' = [op |-> "none"]
    /\ UNCHANGED <<activeKeys, market, runs, started, now, phase, envOps, calc, minCall>>

\* syncProducts: ProductRepository.UpsertProduct of a product that exists,
\* with the price and the stock the marketplace reported
UpsertProduct(p, price, stock) ==
    /\ Alive
    /\ envOps < MaxEnvOps
    /\ store' = [store EXCEPT ![p].price = price, ![p].stock = stock]
    /\ envOps' = envOps + 1
    /\ UNCHANGED <<activeKeys, market, runs, started, req, now, phase, calc, minCall>>

\* InventoryService.CalculateDaysOfStock up to productRepo.Update: GetByID;
\* the fields it assigns to the copy (SalesVelocity, DaysOfStock,
\* LastSyncAt) are none of those kept here
CalculateDaysOfStock(p) ==
    /\ Alive
    /\ calc.op = "none"
    /\ calc' = [op |-> "calc", id |-> p, product |-> store[p]]
    /\ UNCHANGED <<store, market, activeKeys, runs, started, req, now, phase, envOps, minCall>>

\* the productRepo.Update of CalculateDaysOfStock: the $set of every field
\* of the copy
UpdateDaysOfStock ==
    /\ Alive
    /\ calc.op # "none"
    /\ \/ store' = [store EXCEPT ![calc.id] = calc.product]
       \/ UNCHANGED store
    /\ calc' = [op |-> "none"]
    /\ UNCHANGED <<market, activeKeys, runs, started, req, now, phase, envOps, minCall>>

RunStep(i) ==
    \/ GetAllActive(i)
    \/ ProcessUserProducts(i)
    \/ processProduct(i)
    \/ SkipWrite(i)
    \/ UpdateProductPrice(i)
    \/ WriteNewPrice(i)

\* --------------------------------------------------------- specifications

\* no call of GetMinCompetitorPrice outside processProduct is under way
NoCall == [prices |-> <<>>, returned |-> FALSE, ret |-> 0]

Doc(price, minPrice, enabled) ==
    [price |-> price, minPrice |-> minPrice, compMin |-> 0, lastCheck |-> 0,
     enabled |-> enabled, stock |-> 1]

\* The worker with its scheduler started, the handlers and the inventory
\* sync at work: a store of one product, with price dumping enabled by its
\* owner, with or without a floor.
Init ==
    /\ \E minPrice \in 0..1 : store = [p \in {1} |-> Doc(MaxPrice, minPrice, TRUE)]
    /\ market = [p \in DOMAIN store |-> store[p].price]
    /\ activeKeys = <<1>>
    /\ runs = [i \in Runs |-> IdleRun]
    /\ started = 0
    /\ req = [op |-> "none"]
    /\ now = 1
    /\ phase = "running"
    /\ envOps = 0
    /\ calc = [op |-> "none"]
    /\ minCall = NoCall

Next ==
    \/ Tick
    \/ \E i \in Runs : RunStep(i)
    \/ Stop
    \/ Exit
    \/ \E p \in DOMAIN store, minPrice \in Prices : EnableProductDumping(p, minPrice)
    \/ \E p \in DOMAIN store : DisableProductDumping(p)
    \/ Update
    \/ \E p \in DOMAIN store, price \in Prices, stock \in 0..1 : UpsertProduct(p, price, stock)

Spec == Init /\ [][Next]_vars

\* The initial price dumping cycle that main makes before it starts the
\* scheduler: one call of ProcessAllUsers over a store of products with
\* price dumping enabled, the first with or without a floor, the second in
\* stock, out of stock or with price dumping disabled.
InitCycle ==
    /\ \E price \in {0, MaxPrice}, minPrice \in {0, 2},
          enabled \in BOOLEAN, stock \in 0..1 :
         /\ enabled \/ stock > 0
         /\ store = [p \in Products |->
                       IF p = 1 THEN Doc(price, minPrice, TRUE)
                       ELSE IF p = 2 THEN [Doc(2, 1, enabled) EXCEPT !.stock = stock]
                       ELSE Doc(2, 1, TRUE)]
    /\ market = [p \in Products |-> store[p].price]
    /\ activeKeys = [k \in 1..NumUsers |-> k]
    /\ runs = [i \in Runs |->
                 IF i = 1 THEN [IdleRun EXCEPT !.pc = "ProcessAllUsers"] ELSE IdleRun]
    /\ started = 0
    /\ req = [op |-> "none"]
    /\ now = 1
    /\ phase = "initial"
    /\ envOps = 0
    /\ calc = [op |-> "none"]
    /\ minCall = NoCall

NextCycle ==
    \/ \E i \in Runs : RunStep(i)
    \/ TimePasses

SpecCycle == InitCycle /\ [][NextCycle]_vars

\* The worker with the price dumping job and the whole of the sync job:
\* syncProducts and RecalculateAllProducts, which calls CalculateDaysOfStock
\* for every product of the user.
NextSync ==
    \/ Tick
    \/ \E i \in Runs : RunStep(i)
    \/ \E p \in DOMAIN store, minPrice \in Prices : EnableProductDumping(p, minPrice)
    \/ \E p \in DOMAIN store : DisableProductDumping(p)
    \/ Update
    \/ \E p \in DOMAIN store, price \in Prices, stock \in 0..1 : UpsertProduct(p, price, stock)
    \/ \E p \in DOMAIN store : CalculateDaysOfStock(p)
    \/ UpdateDaysOfStock

SpecSync == Init /\ [][NextSync]_vars

\* One call of ProcessAllUsers in which every call the run makes returns,
\* with a result or with an error: no step of the run that is possible is
\* put off for ever.
NextTerm == \E i \in Runs : RunStep(i)

SpecTerm == InitCycle /\ [][NextTerm]_vars /\ \A i \in Runs : WF_vars(RunStep(i))

\* The worker with the price dumping job alone: cron fires it again and
\* again, each firing in a goroutine of its own, and nothing else writes the
\* store: the competitors' prices, the floor and the stored price change
\* only as the cycles change them.
NextTicks ==
    \/ Tick
    \/ \E i \in Runs : RunStep(i)

SpecTicks == Init /\ [][NextTicks]_vars

\* The worker as main builds it: the only job added to the scheduler is the
\* sync (the AddJob of the price dumping cycle and the initial call of
\* ProcessAllUsers are commented out), so after Start the store is written
\* by syncProducts and RecalculateAllProducts alone, for as long as the
\* worker runs.
InitWorker ==
    /\ \E price \in {0, MaxPrice}, minPrice \in {0, 2},
          enabled \in BOOLEAN, stock \in 0..1 :
         /\ enabled \/ stock > 0
         /\ store = [p \in Products |->
                       IF p = 1 THEN Doc(price, minPrice, TRUE)
                       ELSE IF p = 2 THEN [Doc(2, 1, enabled) EXCEPT !.stock = stock]
                       ELSE Doc(2, 1, TRUE)]
    /\ market = [p \in Products |-> store[p].price]
    /\ activeKeys = [k \in 1..NumUsers |-> k]
    /\ runs = [i \in Runs |-> IdleRun]
    /\ started = 0
    /\ req = [op |-> "none"]
    /\ now = 1
    /\ phase = "running"
    /\ envOps = 0
    /\ calc = [op |-> "none"]
    /\ minCall = NoCall

NextWorker ==
    \/ \E p \in DOMAIN store, price \in Prices, stock \in 0..1 : UpsertProduct(p, price, stock)
    \/ \E p \in DOMAIN store : CalculateDaysOfStock(p)
    \/ UpdateDaysOfStock
    \/ TimePasses

SpecWorker == InitWorker /\ [][NextWorker]_vars /\ WF_vars(NextWorker)

\* kaspi.GetMinCompetitorPrice called on its own, on any list of competitor
\* prices of up to MaxList elements
MinLists == SeqsUpTo(Prices, MaxList)

InitMin ==
    /\ store = [p \in {1} |-> Doc(MaxPrice, 0, TRUE)]
    /\ market = [p \in DOMAIN store |-> store[p].price]
    /\ activeKeys = <<1>>
    /\ runs = [i \in Runs |-> IdleRun]
    /\ started = 0
    /\ req = [op |-> "none"]
    /\ now = 1
    /\ phase = "initial"
    /\ envOps = 0
    /\ calc = [op |-> "none"]
    /\ \E prices \in MinLists : minCall = [NoCall EXCEPT !.prices = prices]

\* the call returns
ReturnMin ==
    /\ ~minCall.returned
    /\ minCall' = [minCall EXCEPT !.returned = TRUE,
                                  !.ret = GetMinCompetitorPrice(minCall.prices)]
    /\ UNCHANGED <<store, market, activeKeys, runs, started, req, now, phase, envOps, calc>>

NextMin == ReturnMin

SpecMin == InitMin /\ [][NextMin]_vars

\* ------------------------------------------------------------------ claims

InFlight(i) == runs[i].pc \in {"floorWrite", "optimalWrite", "publish", "write"}

\* the product run i is processing, as it was listed
Cur(i) == runs[i].products[runs[i].pi]

\* run i has taken a step of its own
Stepped(i) == runs'[i] # runs[i]

\* C1: on the update path of processProduct the new price is never below
\* the floor (MinPrice > 0) the product was listed with: not when it is
\* decided, not when UpdateProductPrice publishes it, not when UpdatePrice
\* writes it.
C1_UpdateNeverBelowFloor ==
    [][\A i \in Runs :
         (runs[i].pc \in {"publish", "write"} /\ Cur(i).minPrice > 0) =>
            /\ runs[i].newPrice >= Cur(i).minPrice
            /\ (runs[i].pc = "publish" /\ runs'[i].pc = "write")
                  => market'[Cur(i).id] >= Cur(i).minPrice
            /\ (runs[i].pc = "write" /\ Stepped(i)
                  /\ runs'[i].outcome[Cur(i).id] = "Updated")
                  => store'[Cur(i).id].price >= Cur(i).minPrice]_vars

\* a product listed with a floor has been updated: published and written
C1_Witness ==
    \E i \in Runs : \E k \in 1..Len(runs[i].products) :
        LET product == runs[i].products[k]
        IN  /\ product.minPrice > 0
            /\ runs[i].outcome[product.id] = "Updated"
            /\ store[product.id].price >= product.minPrice
            /\ store[product.id].price # product.price

\* C2 (as claimed): no step of a cycle takes the stored price of a product
\* with a floor from at or above the floor now stored to below it.
C2_NeverBelowStoredFloor ==
    [][\A p \in DOMAIN store :
         (runs' # runs /\ store[p].minPrice > 0 /\ store[p].price >= store[p].minPrice)
            => store'[p].price >= store'[p].minPrice]_vars

\* C3 (as claimed): every step of a cycle that changes the stored price of a
\* product is the write of a run that has published that very price for that
\* product in its current processProduct.
C3_WriteAfterPublish ==
    [][\A p \in DOMAIN store :
         (runs' # runs /\ store'[p].price # store[p].price) =>
            \E i \in Runs : /\ runs[i].pc = "write"
                            /\ Cur(i).id = p
                            /\ store'[p].price = runs[i].newPrice]_vars

\* C4: when UpdateProductPrice returns an error, processProduct writes
\* nothing to the store (no field of any product changes), nothing is
\* published, and the product's processing ends as failed: it is not counted
\* as processed.
C4_PublishFailureWritesNothing ==
    [][\A i \in Runs :
         (runs[i].pc = "publish" /\ Stepped(i) /\ runs'[i].pc # "write") =>
            /\ store' = store
            /\ market' = market
            /\ runs'[i].outcome[Cur(i).id] = "FailedPublish"
            /\ runs'[i].processedCount = runs[i].processedCount]_vars

\* a publish has failed and the product still has the listed price
C4_Witness ==
    \E i \in Runs : \E k \in 1..Len(runs[i].products) :
        LET product == runs[i].products[k]
        IN  /\ runs[i].outcome[product.id] = "FailedPublish"
            /\ store[product.id].price = product.price
            /\ store[product.id].lastCheck = product.lastCheck

\* C5: whatever fails for one product, every product the cycle entered its
\* loop with is fetched and decided: while a user's products are processed
\* exactly those from the current one on are pending, and none is pending
\* when the pass or the cycle is over.
C5_LaterProductsStillProcessed ==
    \A i \in Runs :
        /\ runs[i].pc \in {"ProcessUserProducts", "returned"}
              => \A p \in Products : runs[i].outcome[p] # "Pending"
        /\ (runs[i].pc = "processProduct" \/ InFlight(i))
              => \A k \in 1..Len(runs[i].products) :
                    (runs[i].outcome[runs[i].products[k].id] = "Pending")
                       <=> (k >= runs[i].pi)

\* the first product failed, the next one of the same user and the product
\* of the later user were updated in the same cycle
C5_Witness ==
    \E i \in Runs :
        /\ runs[i].pc = "returned"
        /\ runs[i].outcome[1] \in Failures
        /\ runs[i].outcome[2] = "Updated"
        /\ runs[i].outcome[NumProducts] = "Updated"

RECURSIVE KeysUpTo(_, _)
KeysUpTo(keys, n) == IF n = 0 THEN {} ELSE KeysUpTo(keys, n - 1) \cup {keys[n]}

\* C6: a failure for one user (listing error, key not decrypted) does not
\* end the cycle: ProcessUserProducts is called for every active key, in
\* order, and ProcessAllUsers returns nil once the key listing succeeded.
C6_EveryUserCalled ==
    \A i \in Runs :
        /\ (runs[i].pc = "returned" /\ Len(runs[i].keys) > 0)
              => /\ runs[i].called = KeysUpTo(runs[i].keys, Len(runs[i].keys))
                 /\ runs[i].ret = "nil"
        /\ runs[i].pc = "ProcessUserProducts"
              => runs[i].called = KeysUpTo(runs[i].keys, runs[i].ui - 1)

\* the first user failed and the second user's product was processed
C6_Witness ==
    \E i \in Runs :
        /\ runs[i].pc = "returned"
        /\ runs[i].errorCount >= 1
        /\ runs[i].called = KeysUpTo(runs[i].keys, Len(runs[i].keys))
        /\ runs[i].outcome[NumProducts] \notin {"NotListed", "Pending"}
        /\ \A p \in Products : Owner(p) = 1 => runs[i].outcome[p] = "NotListed"

\* C7: when GetAllActive fails ProcessAllUsers returns the error at once:
\* no user is processed, no product listed, fetched, published or written,
\* and the run does nothing more (no retry of the listing).
C7_KeyListingFailureEndsCycle ==
    /\ [](\A i \in Runs : runs[i].ret = "error" =>
             /\ runs[i].pc = "returned"
             /\ runs[i].keys = <<>>
             /\ runs[i].called = {}
             /\ \A p \in Products : runs[i].outcome[p] = "NotListed")
    /\ [][\A i \in Runs :
            /\ (Stepped(i) /\ runs'[i].ret = "error")
                  => (runs[i].pc = "ProcessAllUsers" /\ store' = store /\ market' = market)
            /\ (runs[i].ret = "error" /\ Stepped(i))
                  => runs'[i].pc = "ProcessAllUsers"]_vars

\* a cycle has ended with the error of GetAllActive
C7_Witness ==
    \E i \in Runs : runs[i].ret = "error" /\ runs[i].pc = "returned"

\* C8 (as claimed): at no time are two runs of the scheduled job in progress.
C8_NoOverlap ==
    Cardinality({i \in Runs : ~Free(i)}) <= 1

\* C9: with an empty list of competitor prices processProduct returns nil
\* without a publish and without a store write (no field of any product
\* changes), and no branch past the empty check is ever taken with an empty
\* list.
C9_NoCompetitorsNoChange ==
    /\ [](\A i \in Runs : InFlight(i) => ~runs[i].noCompetitors)
    /\ [][\A i \in Runs :
            (runs[i].pc = "processProduct" /\ Stepped(i)
               /\ runs'[i].outcome[Cur(i).id] = "SkippedNoCompetitors") =>
                  /\ store' = store
                  /\ market' = market
                  /\ runs'[i].processedCount = runs[i].processedCount + 1]_vars

\* a product was skipped for want of competitors and was never written
C9_Witness ==
    \E i \in Runs : \E p \in DOMAIN store :
        /\ runs[i].outcome[p] = "SkippedNoCompetitors"
        /\ store[p].lastCheck = 0
        /\ store[p].compMin = 0
        /\ market[p] = store[p].price

\* C10: past the empty check the candidate is the minimum competitor price
\* less 1, and processProduct is on its update path exactly when the floor
\* guard does not apply and the candidate differs from the listed price,
\* whether that price is above or below the candidate.
C10_UpdateToMinLessMargin ==
    \A i \in Runs :
        InFlight(i) =>
            LET candidate == runs[i].minComp - 1
                guarded == Cur(i).minPrice > 0 /\ candidate < Cur(i).minPrice
            IN  /\ runs[i].newPrice = candidate
                /\ (runs[i].pc \in {"publish", "write"})
                      <=> (~guarded /\ Cur(i).price # candidate)
                /\ runs[i].pc = "floorWrite" <=> guarded

\* in one pass a product was updated to a price above the listed one and
\* another to a price below it
C10_Witness ==
    \E i \in Runs : \E k, l \in 1..Len(runs[i].products) :
        LET a == runs[i].products[k]
            b == runs[i].products[l]
        IN  /\ runs[i].outcome[a.id] = "Updated"
            /\ runs[i].outcome[b.id] = "Updated"
            /\ store[a.id].price > a.price
            /\ store[b.id].price < b.price
            /\ store[a.id].price = store[a.id].compMin - 1
            /\ store[b.id].price = store[b.id].compMin - 1

\* C11 (as claimed): the new price of the update path is never negative: not
\* when it is decided, not as the price published to the marketplace, not
\* as the price written to the store.
C11_UpdatePriceNonNegative ==
    /\ \A i \in Runs : runs[i].pc \in {"publish", "write"} => runs[i].newPrice >= 0
    /\ \A p \in DOMAIN store : market[p] >= 0 /\ store[p].price >= 0

\* the written fields of a product's document that a skip's write is not
\* meant to touch
Kept(doc) == [price |-> doc.price, minPrice |-> doc.minPrice,
              enabled |-> doc.enabled, stock |-> doc.stock]

\* C12 (as claimed): when the candidate equals the listed price (and the
\* floor guard does not apply) processProduct is on its already-optimal
\* branch; that branch publishes nothing, and its store write changes nothing
\* of the product but the competitor minimum and the last-check time.
C12_OptimalSkipRefreshesOnly ==
    /\ [](\A i \in Runs :
            (InFlight(i) /\ ~FloorGuard(Cur(i), runs[i].newPrice))
               => (runs[i].pc = "optimalWrite" <=> Cur(i).price = runs[i].minComp - 1))
    /\ [][\A i \in Runs :
            (runs[i].pc = "optimalWrite" /\ Stepped(i)) =>
               /\ market' = market
               /\ \A p \in DOMAIN store : Kept(store'[p]) = Kept(store[p])
               /\ runs'[i].outcome[Cur(i).id] = "SkippedOptimal"
                     => /\ store'[Cur(i).id].compMin = runs[i].minComp
                        /\ store'[Cur(i).id].lastCheck = now]_vars

\* C13 (as claimed): when the floor is set and the candidate is below it
\* processProduct is on its floor-guard branch; that branch publishes
\* nothing, does not lower the stored price, and its store write persists
\* the minimum competitor price.
C13_FloorSkipKeepsPrice ==
    /\ [](\A i \in Runs :
            InFlight(i) =>
               (runs[i].pc = "floorWrite"
                  <=> (Cur(i).minPrice > 0 /\ runs[i].minComp - 1 < Cur(i).minPrice)))
    /\ [][\A i \in Runs :
            (runs[i].pc = "floorWrite" /\ Stepped(i)) =>
               /\ market' = market
               /\ \A p \in DOMAIN store : store'[p].price >= store[p].price
               /\ runs'[i].outcome[Cur(i).id] = "SkippedFloor"
                     => store'[Cur(i).id].compMin = runs[i].minComp]_vars

\* C14 (as claimed): the store write of a floor-guard or already-optimal
\* skip leaves the stored price of every product as it was just before the
\* write.
C14_SkipWriteKeepsStoredPrice ==
    [][\A i \in Runs :
         (runs[i].pc \in {"floorWrite", "optimalWrite"} /\ Stepped(i)) =>
            \A p \in DOMAIN store : store'[p].price = store[p].price]_vars

\* C16 (as claimed): the write of EnableProductDumping and of
\* DisableProductDumping changes nothing of the product but the enabled flag
\* and the floor: the stored price, stock, competitor minimum and last-check
\* time after the write are those just before it.
C16_ToggleKeepsPrice ==
    [][(req.op # "none" /\ req'.op = "none") =>
          /\ store'[req.id].price = store[req.id].price
          /\ store'[req.id].stock = store[req.id].stock
          /\ store'[req.id].compMin = store[req.id].compMin
          /\ store'[req.id].lastCheck = store[req.id].lastCheck]_vars

\* C20: for a product listed with MinPrice = 0 and a non-empty list of
\* competitor prices the floor guard never applies, whatever the minimum
\* is: processProduct is on its update path with the minimum less the
\* margin, or on its already-optimal branch when that is the listed price,
\* and no product without a floor ends as skipped by the floor guard.
C20_ZeroFloorIsNoFloor ==
    \A i \in Runs :
        /\ (InFlight(i) /\ Cur(i).minPrice = 0) =>
              /\ runs[i].pc # "floorWrite"
              /\ runs[i].newPrice = runs[i].minComp - PriceDumpMargin
              /\ runs[i].pc = "optimalWrite" <=> Cur(i).price = runs[i].newPrice
              /\ runs[i].pc \in {"publish", "write"} <=> Cur(i).price # runs[i].newPrice
        /\ \A k \in 1..Len(runs[i].products) :
              runs[i].outcome[runs[i].products[k].id] = "SkippedFloor"
                 => runs[i].products[k].minPrice > 0

\* a product without a floor was updated to the candidate of the smallest
\* competitor price there is, a candidate below 0
C20_Witness ==
    \E i \in Runs : \E k \in 1..Len(runs[i].products) :
        LET product == runs[i].products[k]
        IN  /\ product.minPrice = 0
            /\ runs[i].outcome[product.id] = "Updated"
            /\ store[product.id].compMin = 0
            /\ store[product.id].price = 0 - PriceDumpMargin

\* C15: a cycle lists, fetches, publishes and writes only products that
\* have price dumping enabled and stock above 0 when the user's products are
\* listed (in this cycle neither field changes after the start): a product
\* with the flag off or with no stock is never in the list of a run, its
\* processing is never started, no call is made for it, and its document
\* and its published price stay as they were.
C15_OnlyEligibleProcessed ==
    \A i \in Runs : \A p \in DOMAIN store :
        (~store[p].enabled \/ store[p].stock <= 0) =>
            /\ runs[i].outcome[p] = "NotListed"
            /\ \A k \in 1..Len(runs[i].products) : runs[i].products[k].id # p
            /\ runs[i].fetchCalls[p] = 0
            /\ runs[i].publishCalls[p] = 0
            /\ store[p].lastCheck = 0
            /\ store[p].compMin = 0
            /\ market[p] = store[p].price

\* a cycle is over in which a product of a user was processed while another
\* product of the same user, disabled or out of stock, was not
C15_Witness ==
    \E i \in Runs : \E p, q \in DOMAIN store :
        /\ runs[i].pc = "returned"
        /\ Owner(p) = Owner(q)
        /\ ~store[p].enabled \/ store[p].stock <= 0
        /\ runs[i].outcome[p] = "NotListed"
        /\ runs[i].outcome[q] \in {"Updated", "SkippedFloor", "SkippedOptimal"}
        /\ store[q].lastCheck > 0

\* C17: in one run of ProcessAllUsers GetCompetitorPrices is called at most
\* once and UpdateProductPrice at most once for each product, whether the
\* calls succeed or fail: the fetch has been made exactly for the products
\* whose processing has begun, the publish only on the update path of a
\* product, and no product appears twice in the list of a pass.
C17_NoRetryInCycle ==
    \A i \in Runs :
        /\ \A p \in Products :
              /\ runs[i].fetchCalls[p] <= 1
              /\ runs[i].publishCalls[p] <= runs[i].fetchCalls[p]
              /\ runs[i].fetchCalls[p] = 1 <=>
                    \/ runs[i].outcome[p] \notin {"NotListed", "Pending"}
                    \/ InFlight(i) /\ Cur(i).id = p
              /\ runs[i].publishCalls[p] = 1 =>
                    \/ runs[i].outcome[p] \in {"Updated", "FailedPublish", "FailedWrite"}
                    \/ runs[i].pc = "write" /\ Cur(i).id = p
        /\ \A k, l \in 1..Len(runs[i].products) :
              runs[i].products[k].id = runs[i].products[l].id => k = l

\* a cycle is over in which the fetch failed for one product and the publish
\* for another, each call made once, and the cycle went on to the next user
C17_Witness ==
    \E i \in Runs : \E p, q \in Products :
        /\ runs[i].pc = "returned"
        /\ runs[i].outcome[p] = "FailedFetch"
        /\ runs[i].fetchCalls[p] = 1
        /\ runs[i].outcome[q] = "FailedPublish"
        /\ runs[i].fetchCalls[q] = 1
        /\ runs[i].publishCalls[q] = 1
        /\ runs[i].fetchCalls[NumProducts] = 1

\* the products of the pass of run i that ended in one of the given ways
Ended(i, results) ==
    {k \in 1..Len(runs[i].products) : runs[i].outcome[runs[i].products[k].id] \in results}

\* C18 (as claimed): when a pass of ProcessUserProducts over a user's
\* products is over, its updated count is the number of those products that
\* were updated (published and written) in the pass, and its processed count
\* the number whose processProduct returned without an error.
C18_CountsExact ==
    \A i \in Runs :
        (runs[i].pc \in {"ProcessUserProducts", "returned"} /\ Len(runs[i].products) > 0) =>
            /\ runs[i].updatedCount = Cardinality(Ended(i, {"Updated"}))
            /\ runs[i].processedCount =
                  Cardinality(Ended(i, {"Updated", "SkippedFloor", "SkippedOptimal",
                                        "SkippedNoCompetitors"}))

\* C28: GetMinCompetitorPrice returns 0 for the empty list and, for any
\* other list, a price of the list that no price of the list is below,
\* wherever in the list the minimum stands and however often.
C28_MinOfList ==
    minCall.returned =>
        LET prices == minCall.prices
        IN  /\ Len(prices) = 0 => minCall.ret = 0
            /\ Len(prices) > 0 =>
                  /\ \E k \in 1..Len(prices) : prices[k] = minCall.ret
                  /\ \A k \in 1..Len(prices) : minCall.ret <= prices[k]

\* the call has returned the minimum of a list in which it stands twice,
\* neither time first, with a higher price between
C28_Witness ==
    /\ minCall.returned
    /\ Len(minCall.prices) >= 4
    /\ \E k, l \in 2..Len(minCall.prices) :
          /\ k + 1 < l
          /\ minCall.prices[k] = minCall.ret
          /\ minCall.prices[l] = minCall.ret
          /\ minCall.prices[k + 1] > minCall.ret
    /\ minCall.prices[1] > minCall.ret

\* C26: once GetAllActive has succeeded ProcessAllUsers returns nil whatever
\* failed for a user or a product; the users counted so far are those the
\* loop is done with, at the end successCount + errorCount is the number of
\* active keys, and errorCount is the number of users for whom
\* ProcessUserProducts returned an error: a user whose pass over the
\* products was entered is never one of them, whatever failed in the pass.
C26_CountsOfUsers ==
    \A i \in Runs :
        /\ (runs[i].pc = "returned" /\ Len(runs[i].keys) > 0) =>
              /\ runs[i].ret = "nil"
              /\ runs[i].successCount + runs[i].errorCount = Len(runs[i].keys)
        /\ (runs[i].pc \notin {"idle", "ProcessAllUsers", "returned"}) =>
              runs[i].successCount + runs[i].errorCount = runs[i].ui - 1
        /\ runs[i].errorCount = Cardinality(runs[i].failedUsers)
        /\ runs[i].failedUsers \subseteq runs[i].called
        /\ \A p \in Products :
              runs[i].outcome[p] # "NotListed" => Owner(p) \notin runs[i].failedUsers

\* a cycle is over with a user counted as an error and another counted as a
\* success though a product of his failed
C26_Witness ==
    \E i \in Runs : \E p \in Products :
        /\ runs[i].pc = "returned"
        /\ runs[i].ret = "nil"
        /\ runs[i].errorCount >= 1
        /\ runs[i].successCount >= 1
        /\ runs[i].outcome[p] \in Failures
        /\ Owner(p) \in runs[i].called \ runs[i].failedUsers

Terminal == {"Updated", "SkippedOptimal", "SkippedFloor", "SkippedNoCompetitors"}
               \cup Failures

\* C23: when every call returns, the cycle returns; every product listed in
\* it goes from pending to one terminal outcome (updated, one of the three
\* skips, or failed), which it then keeps, whatever failed for the products
\* before it; and no product is pending when the cycle is over.
C23_CycleTerminates ==
    /\ <>(\A i \in Runs : runs[i].pc \in {"idle", "returned"})
    /\ [](\A i \in Runs : runs[i].pc = "returned" =>
             \A p \in Products : runs[i].outcome[p] \in Terminal \cup {"NotListed"})
    /\ [][\A i \in Runs : \A p \in Products :
            /\ runs[i].outcome[p] \in Terminal => runs'[i].outcome[p] = runs[i].outcome[p]
            /\ runs[i].outcome[p] = "Pending" => runs'[i].outcome[p] \in Terminal \cup {"Pending"}
            /\ runs[i].outcome[p] = "NotListed"
                  => runs'[i].outcome[p] \in {"NotListed", "Pending"}]_vars

\* the cycle is over: the first product listed failed, and the products
\* after it, of the same user and of the next, have their outcomes
C23_Witness ==
    \E i \in Runs :
        /\ runs[i].pc = "returned"
        /\ runs[i].outcome[1] \in Failures
        /\ \A p \in Products : p > 1 /\ ForDumping(Owner(p), p)
              => runs[i].outcome[p] \in Terminal \ Failures
        /\ \E p \in Products : p > 1 /\ Owner(p) = 1 /\ runs[i].outcome[p] = "SkippedFloor"

\* run i is inside processProduct
Processing(i) == runs[i].pc = "processProduct" \/ InFlight(i)

\* C24 (as claimed): at no time are two executions of processProduct for
\* the same product in progress.
C24_OneWorkerPerProduct ==
    \A i, j \in Runs :
        (i # j /\ Processing(i) /\ Processing(j)) => Cur(i).id # Cur(j).id

\* C25 (as claimed): a product whose enabled flag is off stays off until the
\* write of an EnableProductDumping for it, whatever a cycle or the sync
\* writes meanwhile; and a cycle lists only products whose flag is on when it
\* lists them, and fetches, publishes and writes only for products it listed.
C25_DisabledUntilEnabled ==
    [][/\ \A p \in DOMAIN store :
            (~store[p].enabled /\ store'[p].enabled)
               => (req.op = "enable" /\ req.id = p /\ req'.op = "none")
       /\ \A i \in Runs :
            (runs[i].pc = "ProcessUserProducts" /\ Stepped(i)) =>
               \A k \in 1..Len(runs'[i].products) :
                  store[runs'[i].products[k].id].enabled
       /\ \A i \in Runs : \A p \in Products :
            (runs'[i].fetchCalls[p] > runs[i].fetchCalls[p]
               \/ runs'[i].publishCalls[p] > runs[i].publishCalls[p])
               => (Processing(i) /\ Cur(i).id = p)]_vars

\* C29 (as claimed): the floor and the enabled flag of a product change
\* only in the write of an EnableProductDumping or a DisableProductDumping
\* for it: no write of a cycle and no write of the inventory sync changes
\* either.
C29_FloorAndFlagFrame ==
    [][\A p \in DOMAIN store :
         (store'[p].minPrice # store[p].minPrice \/ store'[p].enabled # store[p].enabled)
            => (req.op # "none" /\ req.id = p /\ req'.op = "none")]_vars

\* run i is on product p, listed as the store now has it
ListedAsStored(i, p) ==
    /\ Cur(i).id = p
    /\ Cur(i).price = store[p].price
    /\ Cur(i).minPrice = store[p].minPrice

\* in this step run i has fetched competitor prices for the product it is on
Fetched(i) ==
    /\ runs[i].pc = "processProduct"
    /\ runs'[i].pc \in {"floorWrite", "optimalWrite", "publish"}

\* C22: once a cycle has updated a product (its write stored the candidate
\* price with the minimum it was made from), a cycle that lists the product
\* as stored and fetches the same minimum takes the already-optimal branch
\* without a publish call, and its write leaves the stored price at that
\* minimum less the margin.
C22_NextCycleSkipsOptimal ==
    /\ [][\A i \in Runs : \A p \in DOMAIN store :
            /\ (runs[i].pc = "write" /\ Cur(i).id = p /\ runs'[i].outcome[p] = "Updated")
                  => /\ store'[p].price = CandidatePrice(store'[p].compMin)
                     /\ store'[p].lastCheck > 0
            /\ (/\ Fetched(i)
                /\ ListedAsStored(i, p)
                /\ store[p].lastCheck > 0
                /\ store[p].price = CandidatePrice(store[p].compMin)
                /\ runs'[i].minComp = store[p].compMin)
                  => /\ runs'[i].pc = "optimalWrite"
                     /\ market' = market
                     /\ store' = store
            /\ (runs[i].pc = "optimalWrite" /\ ListedAsStored(i, p) /\ Stepped(i))
                  => /\ store'[p].price = store[p].price
                     /\ store'[p].price = CandidatePrice(runs[i].minComp)
                     /\ market' = market]_vars
    /\ [](\A i \in Runs : \A p \in Products :
             runs[i].outcome[p] = "SkippedOptimal" => runs[i].publishCalls[p] = 0)

\* the second cycle, started after the first had returned, has skipped as
\* optimal, with no publish call, the product the first cycle updated
C22_Witness ==
    /\ started = 2
    /\ runs[2] = IdleRun
    /\ runs[1].outcome[1] = "SkippedOptimal"
    /\ runs[1].fetchCalls[1] = 1
    /\ runs[1].publishCalls[1] = 0
    /\ store[1].price # MaxPrice
    /\ store[1].price = CandidatePrice(store[1].compMin)
    /\ market[1] = store[1].price

C21_EligibleProcessedAgain ==
    \A p \in Products :
        []([]ForDumping(Owner(p), p)
              => <>(\E i \in Runs : Processing(i) /\ Cur(i).id = p))
====
